---- MODULE Spec2Model ----
(* Model of chunky_v1.py: the size probe safe_get_file_size, the greedy     *)
(* packer calculate_chunks (one action per branch of its loop body), the    *)
(* report builder generate_report and the control flow of main.             *)
EXTENDS Integers, Sequences, FiniteSets, TLC

\* ---- bounds -------------------------------------------------------------
MaxLen == 3        \* longest untracked list explored
MaxSize == 3       \* largest file size explored (bytes)
MaxCeil == 2       \* largest max_chunk_size explored (bytes)

Paths == {"a", "b", "c"}

VARIABLES os_name, fs, untracked_files, max_chunk_size,
          pc, idx, chunks, current_chunk, current_chunk_size, stats,
          outcome, report

vars == <<os_name, fs, untracked_files, max_chunk_size,
          pc, idx, chunks, current_chunk, current_chunk_size, stats,
          outcome, report>>

\* ---- the file system the program observes --------------------------------
\* A path is a directory, or a file for which each of the three measurement
\* attempts has an outcome; size is the byte count any successful attempt
\* returns.
Directory == [isdir |-> TRUE, getsize |-> "OSError", win32 |-> "error", read |-> "error", size |-> 0]

PlainFile(s) == [isdir |-> FALSE, getsize |-> "ok", win32 |-> "ok", read |-> "ok", size |-> s]

Files ==
    {Directory}
    \cup {PlainFile(s) : s \in 0..MaxSize}
    \cup {[isdir |-> FALSE, getsize |-> "OSError", win32 |-> "ok", read |-> "error", size |-> 1],
          [isdir |-> FALSE, getsize |-> "OSError", win32 |-> "error", read |-> "ok", size |-> 1],
          [isdir |-> FALSE, getsize |-> "OSError", win32 |-> "error", read |-> "error", size |-> 1],
          [isdir |-> FALSE, getsize |-> "ValueError", win32 |-> "ok", read |-> "ok", size |-> 1]}

\* Sequences over S of length at most n.
SeqUpTo(S, n) == UNION {[1..k -> S] : k \in 0..n}

\* ---- safe_get_file_size ---------------------------------------------------
\* The first except clause names (OSError, PermissionError); any other
\* exception raised by os.path.getsize leaves the function.
CaughtByFirstExcept == {"OSError", "PermissionError"}

safe_get_file_size(f, os) ==
    IF f.getsize = "ok"
    THEN [size |-> f.size, ok |-> TRUE, raised |-> FALSE]
    ELSE IF f.getsize \notin CaughtByFirstExcept
    THEN [size |-> 0, ok |-> FALSE, raised |-> TRUE]
    ELSE IF os = "nt" /\ f.win32 = "ok"
    THEN [size |-> f.size, ok |-> TRUE, raised |-> FALSE]
    ELSE IF f.read = "ok"
    THEN [size |-> f.size, ok |-> TRUE, raised |-> FALSE]
    ELSE [size |-> 0, ok |-> FALSE, raised |-> FALSE]

\* ---- calculate_chunks -----------------------------------------------------
InitialStats(n) ==
    [total_files |-> n, processed_files |-> 0, successful_files |-> 0,
     failed_files |-> 0, large_files |-> 0, total_chunks |-> 0,
     total_size |-> 0, failed_files_list |-> <<>>]

\* Variant: the oversized test is dropped.
is_large_never(file_size, max) == FALSE

\* file_size > max_chunk_size
is_large(file_size, max) == file_size > max

\* Variant: the fit test allows one byte too many.
exceeds_loose(cur, file_size, max) == cur + file_size > max + 1

\* Variant: the fit test is not strict.
exceeds_inclusive(cur, file_size, max) == cur + file_size >= max

\* current_chunk_size + file_size > max_chunk_size
exceeds(cur, file_size, max) == cur + file_size > max

InLoop == pc = "loop" /\ idx <= Len(untracked_files)

rel_path == untracked_files[idx]

entry == fs[rel_path]

probe == safe_get_file_size(entry, os_name)

Frame == UNCHANGED <<os_name, fs, untracked_files, max_chunk_size>>

Init ==
    /\ os_name \in {"posix", "nt"}
    /\ fs \in [Paths -> Files]
    /\ untracked_files \in SeqUpTo(Paths, MaxLen)
    /\ max_chunk_size \in 0..MaxCeil
    /\ pc = "main"
    /\ idx = 1
    /\ chunks = <<>>
    /\ current_chunk = <<>>
    /\ current_chunk_size = 0
    /\ stats = InitialStats(0)
    /\ outcome = "running"
    /\ report = <<>>

\* main: the untracked list is empty, nothing to do.
MainNoFiles ==
    /\ pc = "main"
    /\ untracked_files = <<>>
    /\ pc' = "done"
    /\ outcome' = "no_untracked_files"
    /\ UNCHANGED <<idx, chunks, current_chunk, current_chunk_size, stats, report>>
    /\ Frame

\* main calls calculate_chunks: locals and stats are set up.
EnterCalculateChunks ==
    /\ pc = "main"
    /\ untracked_files # <<>>
    /\ pc' = "loop"
    /\ idx' = 1
    /\ chunks' = <<>>
    /\ current_chunk' = <<>>
    /\ current_chunk_size' = 0
    /\ stats' = InitialStats(Len(untracked_files))
    /\ UNCHANGED <<outcome, report>>
    /\ Frame

\* Variant: a directory is recorded as a failed measurement.
IterDirectory_countsFailed ==
    /\ pc = "loop" /\ idx <= Len(untracked_files)
    /\ fs[untracked_files[idx]].isdir
    /\ stats' = [stats EXCEPT !.processed_files = @ + 1,
                              !.failed_files = @ + 1]
    /\ idx' = idx + 1
    /\ UNCHANGED <<pc, chunks, current_chunk, current_chunk_size, outcome, report>>
    /\ UNCHANGED <<os_name, fs, untracked_files, max_chunk_size>>

\* Loop body, directory branch.
IterDirectory ==
    /\ InLoop
    /\ entry.isdir
    /\ stats' = [stats EXCEPT !.processed_files = @ + 1]
    /\ idx' = idx + 1
    /\ UNCHANGED <<pc, chunks, current_chunk, current_chunk_size, outcome, report>>
    /\ Frame

\* Loop body, safe_get_file_size lets an exception escape: it leaves
\* calculate_chunks and is caught by main's except Exception.
IterRaise ==
    /\ InLoop
    /\ ~entry.isdir
    /\ probe.raised
    /\ stats' = [stats EXCEPT !.processed_files = @ + 1]
    /\ pc' = "done"
    /\ outcome' = "fatal_error"
    /\ UNCHANGED <<idx, chunks, current_chunk, current_chunk_size, report>>
    /\ Frame

\* Variant: a failed measurement is listed but not counted.
IterFailed_uncounted ==
    /\ InLoop
    /\ ~entry.isdir
    /\ ~probe.raised
    /\ ~probe.ok
    /\ stats' = [stats EXCEPT !.processed_files = @ + 1,
                              !.failed_files_list = Append(@, rel_path)]
    /\ idx' = idx + 1
    /\ UNCHANGED <<pc, chunks, current_chunk, current_chunk_size, outcome, report>>
    /\ Frame

\* Loop body, the probe returned success = False.
IterFailed ==
    /\ InLoop
    /\ ~entry.isdir
    /\ ~probe.raised
    /\ ~probe.ok
    /\ stats' = [stats EXCEPT !.processed_files = @ + 1,
                              !.failed_files = @ + 1,
                              !.failed_files_list = Append(@, rel_path)]
    /\ idx' = idx + 1
    /\ UNCHANGED <<pc, chunks, current_chunk, current_chunk_size, outcome, report>>
    /\ Frame

\* Variant: an oversized file is skipped without counting it in large_files.
IterLarge_uncounted ==
    /\ InLoop
    /\ ~entry.isdir
    /\ ~probe.raised
    /\ probe.ok
    /\ is_large(probe.size, max_chunk_size)
    /\ stats' = [stats EXCEPT !.processed_files = @ + 1,
                              !.successful_files = @ + 1,
                              !.total_size = @ + probe.size]
    /\ idx' = idx + 1
    /\ UNCHANGED <<pc, chunks, current_chunk, current_chunk_size, outcome, report>>
    /\ Frame

\* Loop body, measured file larger than max_chunk_size.
IterLarge ==
    /\ InLoop
    /\ ~entry.isdir
    /\ ~probe.raised
    /\ probe.ok
    /\ is_large(probe.size, max_chunk_size)
    /\ stats' = [stats EXCEPT !.processed_files = @ + 1,
                              !.successful_files = @ + 1,
                              !.total_size = @ + probe.size,
                              !.large_files = @ + 1]
    /\ idx' = idx + 1
    /\ UNCHANGED <<pc, chunks, current_chunk, current_chunk_size, outcome, report>>
    /\ Frame

\* Loop body, the file does not fit: close current_chunk, start a new one.
IterNewChunk ==
    /\ InLoop
    /\ ~entry.isdir
    /\ ~probe.raised
    /\ probe.ok
    /\ ~is_large(probe.size, max_chunk_size)
    /\ exceeds(current_chunk_size, probe.size, max_chunk_size)
    /\ chunks' = Append(chunks, current_chunk)
    /\ current_chunk' = <<rel_path>>
    /\ current_chunk_size' = probe.size
    /\ stats' = [stats EXCEPT !.processed_files = @ + 1,
                              !.successful_files = @ + 1,
                              !.total_size = @ + probe.size,
                              !.total_chunks = @ + 1]
    /\ idx' = idx + 1
    /\ UNCHANGED <<pc, outcome, report>>
    /\ Frame

\* Variant: the file is put at the front of current_chunk.
IterAppend_prepends ==
    /\ InLoop
    /\ ~entry.isdir
    /\ ~probe.raised
    /\ probe.ok
    /\ ~is_large(probe.size, max_chunk_size)
    /\ ~exceeds(current_chunk_size, probe.size, max_chunk_size)
    /\ current_chunk' = <<rel_path>> \o current_chunk
    /\ current_chunk_size' = current_chunk_size + probe.size
    /\ stats' = [stats EXCEPT !.processed_files = @ + 1,
                              !.successful_files = @ + 1,
                              !.total_size = @ + probe.size]
    /\ idx' = idx + 1
    /\ UNCHANGED <<pc, chunks, outcome, report>>
    /\ Frame

\* Loop body, the file fits: append it to current_chunk.
IterAppend ==
    /\ InLoop
    /\ ~entry.isdir
    /\ ~probe.raised
    /\ probe.ok
    /\ ~is_large(probe.size, max_chunk_size)
    /\ ~exceeds(current_chunk_size, probe.size, max_chunk_size)
    /\ current_chunk' = Append(current_chunk, rel_path)
    /\ current_chunk_size' = current_chunk_size + probe.size
    /\ stats' = [stats EXCEPT !.processed_files = @ + 1,
                              !.successful_files = @ + 1,
                              !.total_size = @ + probe.size]
    /\ idx' = idx + 1
    /\ UNCHANGED <<pc, chunks, outcome, report>>
    /\ Frame

\* Variant: current_chunk is closed after the loop even when it is empty.
LoopEnd_unconditional ==
    /\ pc = "loop"
    /\ idx > Len(untracked_files)
    /\ chunks' = Append(chunks, current_chunk)
    /\ stats' = [stats EXCEPT !.total_chunks = @ + 1]
    /\ pc' = "returned"
    /\ UNCHANGED <<idx, current_chunk, current_chunk_size, outcome, report>>
    /\ Frame

\* After the loop: close a non-empty current_chunk and return.
LoopEnd ==
    /\ pc = "loop"
    /\ idx > Len(untracked_files)
    /\ IF current_chunk # <<>>
       THEN /\ chunks' = Append(chunks, current_chunk)
            /\ stats' = [stats EXCEPT !.total_chunks = @ + 1]
       ELSE UNCHANGED <<chunks, stats>>
    /\ pc' = "returned"
    /\ UNCHANGED <<idx, current_chunk, current_chunk_size, outcome, report>>
    /\ Frame

\* ---- generate_report ------------------------------------------------------
RECURSIVE SumSizes(_, _, _)
SumSizes(chunk, fsys, os) ==
    IF chunk = <<>> THEN 0
    ELSE safe_get_file_size(fsys[Head(chunk)], os).size + SumSizes(Tail(chunk), fsys, os)

generate_report(chs, st, fsys, os) ==
    [summary |-> [total_files |-> st.total_files,
                  successful_files |-> st.successful_files,
                  failed_files |-> st.failed_files,
                  large_files |-> st.large_files,
                  total_size |-> st.total_size,
                  total_chunks |-> st.total_chunks],
     chunk_details |-> [k \in 1..Len(chs) |->
                          [files |-> chs[k], chunk_size |-> SumSizes(chs[k], fsys, os)]],
     failed |-> IF st.failed_files > 0 THEN st.failed_files_list ELSE <<>>]

\* A re-probe inside generate_report that lets an exception escape.
ReportRaises ==
    \E k \in 1..Len(chunks) : \E j \in 1..Len(chunks[k]) :
        safe_get_file_size(fs[chunks[k][j]], os_name).raised

\* ---- main after calculate_chunks -----------------------------------------
\* No chunk: the reasons are logged as counts and main returns.
MainNoChunks ==
    /\ pc = "returned"
    /\ chunks = <<>>
    /\ pc' = "done"
    /\ outcome' = "no_valid_chunks"
    /\ UNCHANGED <<idx, chunks, current_chunk, current_chunk_size, stats, report>>
    /\ Frame

\* At least one chunk: the report is generated and logged.
MainReport ==
    /\ pc = "returned"
    /\ chunks # <<>>
    /\ pc' = "done"
    /\ IF ReportRaises
       THEN /\ outcome' = "fatal_error"
            /\ UNCHANGED report
       ELSE /\ outcome' = "completed"
            /\ report' = <<generate_report(chunks, stats, fs, os_name)>>
    /\ UNCHANGED <<idx, chunks, current_chunk, current_chunk_size, stats>>
    /\ Frame

Next ==
    \/ MainNoFiles
    \/ EnterCalculateChunks
    \/ IterDirectory
    \/ IterRaise
    \/ IterFailed
    \/ IterLarge
    \/ IterNewChunk
    \/ IterAppend
    \/ LoopEnd
    \/ MainNoChunks
    \/ MainReport

Spec == Init /\ [][Next]_vars

\* ---- helpers for the properties --------------------------------------------
RECURSIVE Flatten(_)
Flatten(chs) == IF chs = <<>> THEN <<>> ELSE Head(chs) \o Flatten(Tail(chs))

RECURSIVE SumLens(_)
SumLens(chs) == IF chs = <<>> THEN 0 ELSE Len(Head(chs)) + SumLens(Tail(chs))

Range(s) == {s[k] : k \in 1..Len(s)}

Measured(p) == safe_get_file_size(fs[p], os_name)

MeasuredSum(chunk) == SumSizes(chunk, fs, os_name)

InSomeChunk == UNION {Range(chunks[k]) : k \in 1..Len(chunks)} \cup Range(current_chunk)

Returned == pc = "returned"

\* Positions of the input already handled by the loop.
Handled == IF pc = "main" THEN {} ELSE 1..(idx - 1)

IsDirectoryPath(p) == fs[p].isdir

\* The path is a file whose probe succeeds with a size within the ceiling.
Placeable(p) ==
    /\ ~fs[p].isdir
    /\ Measured(p).ok
    /\ Measured(p).size <= max_chunk_size

NotDirectory(p) == ~fs[p].isdir

\* ---- C1 -------------------------------------------------------------------
\* C1: every chunk appended so far, and the chunk being filled, has a sum of
\* measured sizes that is at most max_chunk_size.
C1_Ceiling ==
    /\ \A k \in 1..Len(chunks) : MeasuredSum(chunks[k]) <= max_chunk_size
    /\ MeasuredSum(current_chunk) <= max_chunk_size
    /\ current_chunk_size = MeasuredSum(current_chunk)

C1_Witness ==
    /\ Returned
    /\ Len(chunks) >= 2
    /\ max_chunk_size > 0
    /\ MeasuredSum(chunks[1]) = max_chunk_size
    /\ Len(chunks[1]) = 2

\* ---- C2 -------------------------------------------------------------------
\* C2: when calculate_chunks returns, successful_files equals large_files
\* plus the total number of files in the returned chunks.
C2_Coverage ==
    Returned => stats.successful_files = stats.large_files + SumLens(chunks)

C2_Witness ==
    /\ Returned
    /\ stats.large_files > 0
    /\ Len(chunks) >= 2

\* ---- C3 -------------------------------------------------------------------
\* C3: the concatenation of the returned chunks is the input list with the
\* directories, the oversized files and the unmeasurable files removed, the
\* order of the remaining paths unchanged.
C3_OrderPreserved ==
    Returned => Flatten(chunks) = SelectSeq(untracked_files, Placeable)

C3_Witness ==
    /\ Returned
    /\ Len(chunks) >= 1
    /\ Len(Flatten(chunks)) = 2
    /\ Flatten(chunks)[1] # Flatten(chunks)[2]
    /\ Len(untracked_files) = 3
    /\ ~Placeable(untracked_files[2])

\* ---- C4 -------------------------------------------------------------------
\* C4: a path classified as oversized, or recorded in failed_files_list, is
\* in no chunk and not in the chunk being filled, also when the path occurs
\* more than once in the input.
ClassifiedOversized ==
    {untracked_files[j] : j \in {h \in Handled :
        /\ ~fs[untracked_files[h]].isdir
        /\ Measured(untracked_files[h]).ok
        /\ Measured(untracked_files[h]).size > max_chunk_size}}

C4_ExcludedNeverChunked ==
    (ClassifiedOversized \cup Range(stats.failed_files_list)) \cap InSomeChunk = {}

C4_Witness ==
    /\ Returned
    /\ chunks # <<>>
    /\ \E j, k \in 1..Len(untracked_files) :
          /\ j < k
          /\ untracked_files[j] = untracked_files[k]
          /\ untracked_files[j] \in ClassifiedOversized \cup Range(stats.failed_files_list)

\* ---- C5 -------------------------------------------------------------------
\* C5: a measured file within the ceiling closes the current chunk and starts
\* a new one holding only that file exactly when current_chunk_size + size is
\* strictly greater than max_chunk_size, and is appended otherwise; so the
\* sum of a chunk plus the size of the first file of the next chunk exceeds
\* max_chunk_size.
ConsecutiveChunksOverflow ==
    LET all == IF current_chunk = <<>> \/ pc # "loop" THEN chunks
               ELSE Append(chunks, current_chunk)
    IN \A k \in 1..(Len(all) - 1) :
          MeasuredSum(all[k]) + Measured(all[k + 1][1]).size > max_chunk_size

C5_Step ==
    (InLoop /\ Placeable(untracked_files[idx])) =>
        LET size == Measured(untracked_files[idx]).size IN
        /\ (current_chunk_size + size > max_chunk_size) =>
              /\ chunks' = Append(chunks, current_chunk)
              /\ current_chunk' = <<untracked_files[idx]>>
        /\ (current_chunk_size + size <= max_chunk_size) =>
              /\ chunks' = chunks
              /\ current_chunk' = Append(current_chunk, untracked_files[idx])

C5_StrictSplit == [][C5_Step /\ ConsecutiveChunksOverflow']_vars

C5_Witness ==
    /\ Returned
    /\ Len(chunks) = 2
    /\ Len(chunks[1]) = 2
    /\ MeasuredSum(chunks[1]) = max_chunk_size
    /\ Measured(chunks[1][2]).size > 0

\* ---- C6 -------------------------------------------------------------------
SomeProbe == \E j \in 1..Len(untracked_files) : ~fs[untracked_files[j]].isdir

EveryProbeFails ==
    /\ SomeProbe
    /\ \A j \in 1..Len(untracked_files) :
          ~fs[untracked_files[j]].isdir => ~Measured(untracked_files[j]).ok

\* C6 as stated: if every probe fails, chunks is empty, failed_files equals
\* total_files and successful_files is 0, for every input list.
C6_Original ==
    (Returned /\ EveryProbeFails) =>
        /\ chunks = <<>>
        /\ stats.failed_files = stats.total_files
        /\ stats.successful_files = 0

\* C6 amended: if every probe fails, chunks is empty, successful_files is 0
\* and failed_files equals total_files minus the number of directory entries
\* of the input, the failed list being the non-directory paths in order.
C6_AllUnmeasurable ==
    (Returned /\ EveryProbeFails) =>
        /\ chunks = <<>>
        /\ stats.successful_files = 0
        /\ stats.failed_files =
              stats.total_files - Len(SelectSeq(untracked_files, IsDirectoryPath))
        /\ stats.failed_files_list = SelectSeq(untracked_files, NotDirectory)

C6_Witness ==
    /\ Returned
    /\ EveryProbeFails
    /\ \E j \in 1..Len(untracked_files) : fs[untracked_files[j]].isdir
    /\ stats.failed_files >= 1
    /\ stats.failed_files < stats.total_files

\* ---- C7 -------------------------------------------------------------------
DirectoryNowhere ==
    \A p \in Paths : fs[p].isdir =>
        p \notin InSomeChunk \cup Range(stats.failed_files_list)

DirectoryStepKeeps ==
    /\ stats'.successful_files = stats.successful_files
    /\ stats'.failed_files = stats.failed_files
    /\ stats'.total_size = stats.total_size
    /\ stats'.large_files = stats.large_files
    /\ stats'.total_chunks = stats.total_chunks
    /\ stats'.failed_files_list = stats.failed_files_list
    /\ chunks' = chunks
    /\ current_chunk' = current_chunk
    /\ current_chunk_size' = current_chunk_size

\* C7 as stated: an iteration over a directory changes none of
\* processed_files, successful_files, failed_files, total_size, and the
\* directory is in no chunk and not in failed_files_list.
C7_Original ==
    [][/\ (InLoop /\ fs[untracked_files[idx]].isdir) =>
            /\ stats'.processed_files = stats.processed_files
            /\ DirectoryStepKeeps
       /\ DirectoryNowhere']_vars

\* C7 amended: an iteration over a directory increments processed_files by
\* one and changes no other counter, total_size, chunk or failed_files_list;
\* the directory is in no chunk and not in failed_files_list.
C7_DirectorySkipped ==
    [][/\ (InLoop /\ fs[untracked_files[idx]].isdir) =>
            /\ stats'.processed_files = stats.processed_files + 1
            /\ DirectoryStepKeeps
       /\ DirectoryNowhere']_vars

C7_Witness ==
    /\ pc = "loop"
    /\ idx = 3
    /\ fs[untracked_files[2]].isdir
    /\ ~fs[untracked_files[1]].isdir
    /\ stats.processed_files = 2
    /\ current_chunk # <<>>

\* ---- C8 -------------------------------------------------------------------
\* C8: safe_get_file_size never lets an error reach its caller; the result is
\* that of the first successful attempt, and (0, False) exactly when all
\* attempts fail.
AnyAttemptSucceeds(f) ==
    \/ f.getsize = "ok"
    \/ os_name = "nt" /\ f.win32 = "ok"
    \/ f.read = "ok"

C8_NeverPropagates ==
    /\ ~(pc = "done" /\ outcome = "fatal_error")
    /\ \A j \in Handled :
          LET f == fs[untracked_files[j]] IN
          ~f.isdir =>
              /\ Measured(untracked_files[j]).ok <=> AnyAttemptSucceeds(f)
              /\ Measured(untracked_files[j]).ok => Measured(untracked_files[j]).size = f.size
              /\ ~Measured(untracked_files[j]).ok => Measured(untracked_files[j]).size = 0

\* ---- C9 -------------------------------------------------------------------
\* C9: a finished run of main over a non-empty list with at least one
\* unmeasurable file was not aborted and emitted a report that lists every
\* unmeasurable path, also when no chunk was formed.
C9_UnmeasurableReported ==
    (pc = "done" /\ untracked_files # <<>> /\ stats.failed_files > 0) =>
        /\ outcome # "fatal_error"
        /\ report # <<>>
        /\ report[1].failed = stats.failed_files_list

\* ---- C10 ------------------------------------------------------------------
\* C10: after every iteration and at return, total_chunks equals the number
\* of chunks appended so far and no appended chunk is empty.
C10_ChunkCount ==
    /\ stats.total_chunks = Len(chunks)
    /\ \A k \in 1..Len(chunks) : chunks[k] # <<>>

C10_Witness ==
    /\ Returned
    /\ Len(chunks) >= 2
    /\ \E p \in Range(chunks[1]) : Measured(p).size = 0
====
